---- MODULE Spec2Model ----
(***************************************************************************)
(* Model of src/fast_api.rs (rusty_v8): the fast-call type tags, the       *)
(* translation of declared argument types to (CType, SequenceType) pairs,  *)
(* the descriptor builders that forward to the C++ factories, the callback *)
(* options record and the typed-array view (get, get_storage_if_aligned).  *)
(***************************************************************************)
EXTENDS Integers, Sequences, FiniteSets, TLC

(* ------------------------------ bounds --------------------------------- *)

\* Largest element count (the field named byte_length) of a view.
MaxLen == 8

\* Largest base address of a view; base addresses range over 8..MaxBase.
MaxBase == 12

\* Longest argument list handed to the builders.
MaxArgs == 2

(* --------------------------- the type tags ----------------------------- *)

\* enum SequenceType, #[repr(u8)], in declaration order.
SequenceTypeDecl == <<"Scalar", "IsSequence", "IsTypedArray", "IsArrayBuffer">>

SequenceTypes == {SequenceTypeDecl[k] : k \in 1..Len(SequenceTypeDecl)}

\* A variant of an enum declaration without an explicit discriminant; a
\* variant with one carries it as a one-element sequence.
Implicit == <<>>

\* The declaration of CType with CallbackOptions left without "= 255".
CTypeDeclNoExplicit255 ==
  << <<"Void", <<0>> >>, <<"Bool", Implicit>>, <<"Uint8", Implicit>>,
     <<"Int32", Implicit>>, <<"Uint32", Implicit>>, <<"Int64", Implicit>>,
     <<"Uint64", Implicit>>, <<"Float32", Implicit>>, <<"Float64", Implicit>>,
     <<"V8Value", Implicit>>, <<"CallbackOptions", Implicit>> >>

\* enum CType, #[repr(u8)]: the variants in declaration order, each with its
\* explicit discriminant or Implicit.
CTypeDecl ==
  << <<"Void", <<0>> >>, <<"Bool", Implicit>>, <<"Uint8", Implicit>>,
     <<"Int32", Implicit>>, <<"Uint32", Implicit>>, <<"Int64", Implicit>>,
     <<"Uint64", Implicit>>, <<"Float32", Implicit>>, <<"Float64", Implicit>>,
     <<"V8Value", Implicit>>, <<"CallbackOptions", <<255>> >> >>

CTypes == {CTypeDecl[k][1] : k \in 1..Len(CTypeDecl)}

\* Rust's discriminant rule: the explicit value if there is one, otherwise
\* the previous variant's discriminant plus one (zero for the first).
RECURSIVE Discriminant(_, _)
Discriminant(decl, k) ==
  IF decl[k][2] # Implicit THEN decl[k][2][1]
  ELSE IF k = 1 THEN 0
  ELSE Discriminant(decl, k - 1) + 1

\* `ty as u8` for a CType handed over the FFI boundary.
CTypeEncoding(ty) ==
  LET k == CHOOSE i \in 1..Len(CTypeDecl) : CTypeDecl[i][1] = ty
  IN  Discriminant(CTypeDecl, k)

\* enum Type: the ten simple kinds and the three kinds that carry a CType.
SimpleKinds == {"Void", "Bool", "Int32", "Uint32", "Int64", "Uint64",
                "Float32", "Float64", "V8Value", "CallbackOptions"}

BufferKinds == {"Sequence", "TypedArray", "ArrayBuffer"}

Type == [tag : SimpleKinds] \cup [tag : BufferKinds, elem : CTypes]

\* impl From<&Type> for CType with the Int64 and Uint64 arms exchanged.
CTypeFromSwapped64(ty) ==
  CASE ty.tag = "Void"            -> "Void"
    [] ty.tag = "Bool"            -> "Bool"
    [] ty.tag = "Int32"           -> "Int32"
    [] ty.tag = "Uint32"          -> "Uint32"
    [] ty.tag = "Int64"           -> "Uint64"
    [] ty.tag = "Uint64"          -> "Int64"
    [] ty.tag = "Float32"         -> "Float32"
    [] ty.tag = "Float64"         -> "Float64"
    [] ty.tag = "V8Value"         -> "V8Value"
    [] ty.tag = "CallbackOptions" -> "CallbackOptions"
    [] ty.tag = "Sequence"        -> ty.elem
    [] ty.tag = "TypedArray"      -> ty.elem
    [] ty.tag = "ArrayBuffer"     -> ty.elem

\* impl From<&Type> for CType.
CTypeFrom(ty) ==
  CASE ty.tag = "Void"            -> "Void"
    [] ty.tag = "Bool"            -> "Bool"
    [] ty.tag = "Int32"           -> "Int32"
    [] ty.tag = "Uint32"          -> "Uint32"
    [] ty.tag = "Int64"           -> "Int64"
    [] ty.tag = "Uint64"          -> "Uint64"
    [] ty.tag = "Float32"         -> "Float32"
    [] ty.tag = "Float64"         -> "Float64"
    [] ty.tag = "V8Value"         -> "V8Value"
    [] ty.tag = "CallbackOptions" -> "CallbackOptions"
    [] ty.tag = "Sequence"        -> ty.elem
    [] ty.tag = "TypedArray"      -> ty.elem
    [] ty.tag = "ArrayBuffer"     -> ty.elem

\* impl From<&Type> for SequenceType.
SequenceTypeFrom(ty) ==
  CASE ty.tag = "Sequence"    -> "IsSequence"
    [] ty.tag = "TypedArray"  -> "IsTypedArray"
    [] ty.tag = "ArrayBuffer" -> "IsArrayBuffer"
    [] OTHER                  -> "Scalar"

\* impl From<&Type> for CTypeSequenceInfo.
CTypeSequenceInfoFrom(ty) ==
  [c_type |-> CTypeFrom(ty), sequence_type |-> SequenceTypeFrom(ty)]


(* ------------------------- descriptor builders ------------------------- *)

\* Raw pointers returned by the C++ factories: null or a descriptor handle.
Null == "null"

Handles == {"h1", "h2"}

\* NonNull::new_unchecked(p). A null p violates its safety precondition
\* (undefined behaviour): a build that checks unsafe preconditions aborts,
\* any other build hands the null pointer back wrapped as NonNull.
NonNull_new_unchecked(p) ==
  IF p # Null
    THEN {[outcome |-> "returned", handle |-> p]}
    ELSE {[outcome |-> "returned", handle |-> Null],
          [outcome |-> "aborted", handle |-> Null]}

\* The call CTypeInfo::new makes: v8__CTypeInfo__New(ty), ty passed as u8.
CTypeInfo_new_ffi(ty) == [ty |-> CTypeEncoding(ty)]

\* The loop of new_from_slice with the iteration reversed.
RECURSIVE new_from_slice_structs_rev(_)
new_from_slice_structs_rev(types) ==
  IF types = <<>> THEN <<>>
  ELSE Append(new_from_slice_structs_rev(Tail(types)),
              CTypeSequenceInfoFrom(Head(types)))

\* The loop of new_from_slice: structs starts empty and receives
\* type_.into() for each element of types, in order.
RECURSIVE new_from_slice_loop(_, _, _)
new_from_slice_loop(types, k, structs) ==
  IF k > Len(types) THEN structs
  ELSE new_from_slice_loop(types, k + 1,
                           Append(structs, CTypeSequenceInfoFrom(types[k])))

new_from_slice_structs(types) == new_from_slice_loop(types, 1, <<>>)

\* The call new_from_slice makes:
\* v8__CTypeInfo__New__From__Slice(structs.len(), structs.as_ptr()).
new_from_slice_ffi(types) ==
  LET structs == new_from_slice_structs(types)
  IN  [len |-> Len(structs), tys |-> structs]

\* CFunctionInfo::new forwarding args where return_type belongs.
CFunctionInfo_new_ffi_swapped(args, args_len, return_type) ==
  [return_info |-> args, args_len |-> args_len, args_info |-> return_type]

\* The call CFunctionInfo::new makes:
\* v8__CFunctionInfo__New(return_type, args_len, args).
CFunctionInfo_new_ffi(args, args_len, return_type) ==
  [return_info |-> return_type, args_len |-> args_len, args_info |-> args]

(* --------------------------- typed-array view -------------------------- *)

\* The element types T the view is instantiated with: size_of and align_of.
ElemTypes == {[name |-> "u8",  size |-> 1, align |-> 1],
              [name |-> "u32", size |-> 4, align |-> 4],
              [name |-> "u64", size |-> 8, align |-> 8]}

\* Byte addresses of the modelled memory.
Addrs == 0..(MaxBase + 8 * (MaxLen + 2))

\* struct FastApiTypedArray<T>: byte_length and data, with T.
Views == [byte_length : 0..MaxLen, data : 8..MaxBase, elem : ElemTypes]

\* Memory contents: byte a holds (a * mul + off) mod 256.
MemPattern(mul, off) == [a \in Addrs |-> (a * mul + off) % 256]

MemPatterns == {MemPattern(1, 0), MemPattern(37, 11)}

\* The addresses of the buffer's elements [0, byte_length).
BufferAddrs(self) ==
  {a \in Addrs : /\ self.data <= a
                 /\ a < self.data + self.byte_length * self.elem.size}

\* A copy of n bytes starting at addr.
ReadBytes(m, addr, n) == [k \in 1..n |-> m[addr + k - 1]]

\* self.data.add(index): pointer arithmetic in units of size_of::<T>().
ElemAddr(self, index) == self.data + index * self.elem.size

\* The addresses get(index) copies from.
ElemAddrs(self, index) ==
  {ElemAddr(self, index) + k : k \in 0..(self.elem.size - 1)}

\* The condition of get's debug_assert! with <= in place of <.
BoundsOkOffByOne(self, index) == index <= self.byte_length

\* The condition of get's debug_assert!.
BoundsOk(self, index) == index < self.byte_length

\* The alignment test of get_storage_if_aligned left out.
IsAlignedUnchecked(self) == TRUE

\* (self.data as usize) % align_of::<T>() == 0.
IsAligned(self) == self.data % self.elem.align = 0

\* The value get produces when it performs the copy:
\* ptr::copy_nonoverlapping(self.data.add(index), &mut t, 1).
get(m, self, index) == ReadBytes(m, ElemAddr(self, index), self.elem.size)

\* The outcomes of get(index). debug_assert! exists only in builds with
\* debug assertions and runs before the copy. ptr::copy_nonoverlapping::<T>
\* requires a source aligned for T: with a misaligned data pointer the copy
\* is undefined behaviour, which a build that checks unsafe preconditions
\* turns into an abort and any other build performs as a plain copy; the
\* check is a property of the toolchain, not of debug_assertions, so both
\* outcomes are possible in either build. Without the assertion an
\* out-of-range index makes the copy read outside the buffer (undefined
\* behaviour): it yields the bytes found there or faults.
get_outcomes(m, self, index, debug) ==
  LET copied  == [outcome |-> "value", value |-> get(m, self, index),
                  read |-> ElemAddrs(self, index)]
      aborted == IF IsAligned(self) THEN {}
                 ELSE {[outcome |-> "abort", value |-> <<>>, read |-> {}]}
      faulted == IF BoundsOk(self, index) THEN {}
                 ELSE {[outcome |-> "fault", value |-> <<>>,
                        read |-> ElemAddrs(self, index)]}
  IN  IF debug /\ ~BoundsOk(self, index)
        THEN {[outcome |-> "panic", value |-> <<>>, read |-> {}]}
        ELSE {copied} \cup aborted \cup faulted

\* The length given to slice::from_raw_parts_mut.
StorageLen(self) == self.byte_length \div self.elem.align

\* get_storage_if_aligned: None, or the slice (pointer and length) over
\* the view's own memory.
get_storage_if_aligned(self) ==
  IF ~IsAligned(self)
    THEN [present |-> FALSE, data |-> self.data, len |-> 0]
    ELSE [present |-> TRUE, data |-> self.data, len |-> StorageLen(self)]

\* Element j of a slice of T starting at data: a typed place expression.
SliceElem(m, elem, data, j) == ReadBytes(m, data + j * elem.size, elem.size)

(* ----------------------------- the state ------------------------------- *)

VARIABLES
  phase,             \* where the program is: registration, or a fast call
  fallback,          \* FastApiCallbackOptions.fallback
  native_wrote,      \* history: the native function has set fallback
  debug_assertions,  \* the build: cfg!(debug_assertions)
  mem,               \* the bytes of memory
  view,              \* the FastApiTypedArray handed to the call
  ret                \* the last operation: its inputs and what it produced

vars == <<phase, fallback, native_wrote, debug_assertions, mem, view, ret>>

\* The element type of a view that does not exist yet.
U8 == CHOOSE e \in ElemTypes : e.size = 1

\* No view: a null data pointer (wasm_memory is null outside a call).
NoView == [byte_length |-> 0, data |-> 0, elem |-> U8]

\* Argument types the list builder is exercised with: one per shape.
ArgTypes == {[tag |-> "Int32"], [tag |-> "CallbackOptions"],
             [tag |-> "TypedArray", elem |-> "Uint8"],
             [tag |-> "Sequence", elem |-> "Float64"]}

RECURSIVE SeqsUpTo(_, _)
SeqsUpTo(S, n) ==
  IF n = 0 THEN {<<>>}
  ELSE LET shorter == SeqsUpTo(S, n - 1)
       IN  shorter \cup {Append(q, x) : q \in shorter, x \in S}

Init ==
  /\ phase = "Registering"
  /\ fallback = FALSE
  /\ native_wrote = FALSE
  /\ debug_assertions \in BOOLEAN
  /\ mem \in MemPatterns
  /\ view = NoView
  /\ ret = [op |-> "none"]

(* --------------------- registration: the builders ---------------------- *)

\* type_.into(): one declared type translated to its pair.
Translate ==
  /\ phase \in {"Registering", "Deciding"}
  /\ \E ty \in Type :
       ret' = [op |-> "into", ty |-> ty, pair |-> CTypeSequenceInfoFrom(ty)]
  /\ UNCHANGED <<phase, fallback, native_wrote, debug_assertions, mem, view>>

\* CTypeInfo::new(ty); p is what v8__CTypeInfo__New returns.
NewCTypeInfo ==
  /\ phase = "Registering"
  /\ \E ty \in CTypes, p \in Handles \cup {Null} :
       \E o \in NonNull_new_unchecked(p) :
         ret' = [op |-> "CTypeInfo::new", ty |-> ty,
                 ffi |-> CTypeInfo_new_ffi(ty), factory |-> p,
                 outcome |-> o.outcome, handle |-> o.handle]
  /\ UNCHANGED <<phase, fallback, native_wrote, debug_assertions, mem, view>>

\* CTypeInfo::new_from_slice(types); p is what
\* v8__CTypeInfo__New__From__Slice returns. types is borrowed immutably.
NewFromSlice ==
  /\ phase = "Registering"
  /\ \E types \in SeqsUpTo(ArgTypes, MaxArgs), p \in Handles \cup {Null} :
       \E o \in NonNull_new_unchecked(p) :
         ret' = [op |-> "CTypeInfo::new_from_slice", types |-> types,
                 ffi |-> new_from_slice_ffi(types), factory |-> p,
                 outcome |-> o.outcome, handle |-> o.handle]
  /\ UNCHANGED <<phase, fallback, native_wrote, debug_assertions, mem, view>>

\* CFunctionInfo::new(args, args_len, return_type): args points to the
\* caller's array of list_len descriptors; p is what
\* v8__CFunctionInfo__New returns.
NewCFunctionInfo ==
  /\ phase = "Registering"
  /\ \E list_len \in 0..MaxArgs, args_len \in 0..MaxArgs,
        args \in Handles, return_type \in Handles, p \in Handles \cup {Null} :
       \E o \in NonNull_new_unchecked(p) :
         ret' = [op |-> "CFunctionInfo::new", list_len |-> list_len,
                 args |-> args, args_len |-> args_len,
                 return_type |-> return_type,
                 ffi |-> CFunctionInfo_new_ffi(args, args_len, return_type),
                 factory |-> p, outcome |-> o.outcome, handle |-> o.handle]
  /\ UNCHANGED <<phase, fallback, native_wrote, debug_assertions, mem, view>>

(* ----------------------------- a fast call ----------------------------- *)

\* The dispatcher constructs the options record (fallback = false) and the
\* view over a buffer of byte_length elements of T.
Enter ==
  /\ phase = "Registering"
  /\ phase' = "Entered"
  /\ fallback' = FALSE
  /\ native_wrote' = FALSE
  /\ view' \in Views
  /\ ret' = [op |-> "enter"]
  /\ UNCHANGED <<debug_assertions, mem>>

\* The dispatcher calls the registered function pointer.
Invoke ==
  /\ phase = "Entered"
  /\ phase' = "Deciding"
  /\ ret' = [op |-> "invoke"]
  /\ UNCHANGED <<fallback, native_wrote, debug_assertions, mem, view>>

\* get with a write of the options record's flag added.
GetClearsFallback ==
  /\ phase = "Deciding"
  /\ \E index \in 0..(view.byte_length + 1) :
       \E o \in get_outcomes(mem, view, index, debug_assertions) :
         /\ ret' = [op |-> "get", index |-> index, outcome |-> o.outcome,
                    value |-> o.value, read |-> o.read]
         /\ phase' = IF o.outcome = "value" THEN "Deciding" ELSE "Crashed"
  /\ fallback' = FALSE
  /\ UNCHANGED <<native_wrote, debug_assertions, mem, view>>

\* The native function calls view.get(index). A failed debug_assert!, an
\* abort by the copy's precondition check or a fault ends the call without
\* a return.
Get ==
  /\ phase = "Deciding"
  /\ \E index \in 0..(view.byte_length + 1) :
       \E o \in get_outcomes(mem, view, index, debug_assertions) :
         /\ ret' = [op |-> "get", index |-> index, outcome |-> o.outcome,
                    value |-> o.value, read |-> o.read]
         /\ phase' = IF o.outcome = "value" THEN "Deciding" ELSE "Crashed"
  /\ UNCHANGED <<fallback, native_wrote, debug_assertions, mem, view>>

\* The native function calls view.get_storage_if_aligned().
GetStorageIfAligned ==
  /\ phase = "Deciding"
  /\ ret' = [op |-> "get_storage_if_aligned",
             storage |-> get_storage_if_aligned(view)]
  /\ UNCHANGED <<phase, fallback, native_wrote, debug_assertions, mem, view>>

\* The native function sets options.fallback to true.
NativeSetFallback ==
  /\ phase = "Deciding"
  /\ fallback' = TRUE
  /\ native_wrote' = TRUE
  /\ ret' = [op |-> "set_fallback"]
  /\ UNCHANGED <<phase, debug_assertions, mem, view>>

\* The native function returns; the dispatcher checks options.fallback.
Return ==
  /\ phase = "Deciding"
  /\ phase' = IF fallback THEN "FallbackRequested" ELSE "FastCompleted"
  /\ ret' = [op |-> "return"]
  /\ UNCHANGED <<fallback, native_wrote, debug_assertions, mem, view>>

Next ==
  \/ Translate
  \/ NewCTypeInfo
  \/ NewFromSlice
  \/ NewCFunctionInfo
  \/ Enter
  \/ Invoke
  \/ Get
  \/ GetStorageIfAligned
  \/ NativeSetFallback
  \/ Return

Spec == Init /\ [][Next]_vars

(* ------------------------------ the claims ----------------------------- *)

\* The bytes stored at addr .. addr + n - 1, read straight from memory.
DirectCopy(addr, n) == [k \in 1..n |-> mem[addr + (k - 1)]]

\* C1: for an index below byte_length, get returns exactly the size_of::<T>()
\* bytes stored at base + index * size_of::<T>(), whatever the alignment of
\* the base address.
C1_GetReadsElement ==
  ret.op = "get" /\ ret.index < view.byte_length =>
    /\ ret.outcome = "value"
    /\ ret.value = DirectCopy(view.data + ret.index * view.elem.size,
                              view.elem.size)
    /\ Len(ret.value) = view.elem.size

\* C2: get_storage_if_aligned returns None exactly when the base address is
\* not a multiple of align_of::<T>(); otherwise it returns a slice of length
\* byte_length / align_of::<T>() whose element j is what get(j) returns.
C2_StorageIfAligned ==
  ret.op = "get_storage_if_aligned" =>
    /\ ~ret.storage.present <=> view.data % view.elem.align # 0
    /\ ret.storage.present =>
         /\ ret.storage.len = view.byte_length \div view.elem.align
         /\ \A j \in 0..(ret.storage.len - 1) :
              \A o \in get_outcomes(mem, view, j, debug_assertions) :
                /\ o.outcome = "value"
                /\ o.value = SliceElem(mem, view.elem, ret.storage.data, j)

C2_Witness ==
  /\ ret.op = "get_storage_if_aligned"
  /\ ret.storage.present
  /\ view.elem.size = 8
  /\ ret.storage.len >= 1

\* C3 as stated: for an index at or beyond byte_length, get is rejected by
\* its check and reads nothing outside the view's elements.
C3_AlwaysBoundsChecked ==
  ret.op = "get" /\ ret.index >= view.byte_length =>
    /\ ret.outcome = "panic"
    /\ ret.read \subseteq BufferAddrs(view)

\* C3 amended: the bounds check of get is a debug assertion. In a build
\* with debug assertions an index at or beyond byte_length panics before any
\* memory is read; in a build without them the index is not checked: the
\* call is never rejected for its index, and the copy, unless the
\* toolchain's alignment check aborts it on a misaligned view, is attempted
\* at base + index * size_of::<T>(), outside the view's elements.
C3_BoundsCheckedInDebugOnly ==
  ret.op = "get" /\ ret.index >= view.byte_length =>
    IF debug_assertions
      THEN /\ ret.outcome = "panic"
           /\ ret.read = {}
           /\ phase = "Crashed"
      ELSE /\ ret.outcome # "panic"
           /\ ret.outcome = "abort" =>
                /\ view.data % view.elem.align # 0
                /\ ret.read = {}
           /\ ret.outcome # "abort" =>
                /\ ret.read =
                     {view.data + ret.index * view.elem.size + k :
                        k \in 0..(view.elem.size - 1)}
                /\ ret.read \cap BufferAddrs(view) = {}

C3_Witness ==
  /\ ret.op = "get"
  /\ ret.index = view.byte_length
  /\ view.byte_length > 0
  /\ debug_assertions
  /\ ret.outcome = "panic"

\* C4: within a call the fallback flag is false on entry and is true exactly
\* when the native function has set it; once true it stays true, and the
\* call ends in FallbackRequested exactly when the native function set it.
C4_FallbackOnlyByNative ==
  /\ [](/\ phase = "Entered" => ~fallback
        /\ fallback = native_wrote
        /\ phase = "FallbackRequested" => native_wrote
        /\ phase = "FastCompleted" => ~native_wrote)
  /\ [][fallback /\ phase # "Registering" => fallback']_vars

C4_Witness ==
  /\ ret.op \in {"get", "get_storage_if_aligned", "into"}
  /\ phase = "Deciding"
  /\ fallback
  /\ native_wrote

\* The container shape each buffer kind stands for.
ShapeOfKind ==
  [k \in BufferKinds |->
     IF k = "Sequence" THEN "IsSequence"
     ELSE IF k = "TypedArray" THEN "IsTypedArray"
     ELSE "IsArrayBuffer"]

\* The pair a declared type stands for: (its own tag, Scalar) for a simple
\* kind, (the element tag, the container's shape) for a buffer kind.
PairOf(ty) ==
  IF ty.tag \in SimpleKinds
    THEN [c_type |-> ty.tag, sequence_type |-> "Scalar"]
    ELSE [c_type |-> ty.elem, sequence_type |-> ShapeOfKind[ty.tag]]

\* C5: the translation of a declared type is total: a simple kind yields
\* (its same-named tag, Scalar), Sequence(e), TypedArray(e), ArrayBuffer(e)
\* yield (e, IsSequence), (e, IsTypedArray), (e, IsArrayBuffer), and
\* translating the same value again yields the same pair.
C5_TranslationTotal ==
  ret.op = "into" =>
    /\ ret.pair \in [c_type : CTypes, sequence_type : SequenceTypes]
    /\ ret.pair = PairOf(ret.ty)
    /\ CTypeSequenceInfoFrom(ret.ty) = ret.pair

C5_Witness ==
  /\ ret.op = "into"
  /\ ret.ty.tag = "TypedArray"
  /\ ret.ty.elem = "Uint8"
  /\ ret.pair = [c_type |-> "Uint8", sequence_type |-> "IsTypedArray"]

\* The scalar tags other than CallbackOptions, in the order of their numbers.
NumberedTags == <<"Void", "Bool", "Uint8", "Int32", "Uint32", "Int64",
                  "Uint64", "Float32", "Float64", "V8Value">>

\* C6: CallbackOptions is encoded as 255, Void .. V8Value as 0 .. 9, all
\* encodings are pairwise distinct and fit in one byte; the byte handed to
\* the factory is 255 exactly for CallbackOptions.
C6_EncodingDistinct ==
  /\ CTypeEncoding("CallbackOptions") = 255
  /\ \A k \in 1..Len(NumberedTags) : CTypeEncoding(NumberedTags[k]) = k - 1
  /\ \A a, b \in CTypes : a # b => CTypeEncoding(a) # CTypeEncoding(b)
  /\ \A a \in CTypes : CTypeEncoding(a) \in 0..255
  /\ ret.op = "CTypeInfo::new" =>
       /\ ret.ffi.ty \in 0..255
       /\ ret.ffi.ty = 255 <=> ret.ty = "CallbackOptions"

C6_Witness ==
  /\ ret.op = "CTypeInfo::new"
  /\ ret.ty = "CallbackOptions"
  /\ ret.ffi.ty = 255

\* C7 as stated: the count forwarded to the factory always equals the
\* length of the argument list whose pointer is forwarded.
C7_CountEqualsListLength ==
  ret.op = "CFunctionInfo::new" => ret.ffi.args_len = ret.list_len

\* C7 amended: the builder takes the count as a parameter of its own
\* (args_len) and forwards return_type, args_len and args unchanged; the
\* forwarded count equals the list's length whenever the caller passed
\* args_len equal to that length.
C7_ForwardsCallerCount ==
  ret.op = "CFunctionInfo::new" =>
    /\ ret.ffi.args_len = ret.args_len
    /\ ret.ffi.args_info = ret.args
    /\ ret.ffi.return_info = ret.return_type
    /\ ret.args_len = ret.list_len => ret.ffi.args_len = ret.list_len

C7_Witness ==
  /\ ret.op = "CFunctionInfo::new"
  /\ ret.args_len # ret.list_len
  /\ ret.args # ret.return_type
  /\ ret.ffi.args_len = ret.args_len

\* C8: a builder never hands a null handle back: when the factory returns
\* null the builder stops instead of returning.
C8_NeverNullHandle ==
  ret.op \in {"CTypeInfo::new", "CTypeInfo::new_from_slice",
              "CFunctionInfo::new"} =>
    /\ ret.outcome = "returned" => ret.handle # Null
    /\ ret.factory = Null => ret.outcome = "aborted"

\* C9: the list builder hands the factory an array as long as the input
\* list whose entry k is the translation of the k-th input type, and the
\* length it passes is that length.
C9_SliceTranslatedInOrder ==
  ret.op = "CTypeInfo::new_from_slice" =>
    /\ ret.ffi.len = Len(ret.types)
    /\ Len(ret.ffi.tys) = Len(ret.types)
    /\ \A k \in 1..Len(ret.types) : ret.ffi.tys[k] = PairOf(ret.types[k])

C9_Witness ==
  /\ ret.op = "CTypeInfo::new_from_slice"
  /\ Len(ret.types) = 2
  /\ ret.types[1].tag = "Int32"
  /\ ret.types[2].tag = "TypedArray"
  /\ ret.ffi.len = 2

\* C10: for an aligned view the slice of get_storage_if_aligned has exactly
\* the indices get accepts, that is byte_length elements.
C10_SameExtent ==
  ret.op = "get_storage_if_aligned" /\ ret.storage.present =>
    /\ ret.storage.len = view.byte_length
    /\ \A i \in 0..(view.byte_length + 1) :
         BoundsOk(view, i) <=> i < ret.storage.len

====
